---- MODULE Spec2Model ----
(***************************************************************************)
(* Bridge runtime of the MCP SDK (mcp-golang/pkg/mcpsdk): the controller   *)
(* state machine of sdk.go, the session pumps of session.go, the           *)
(* dispatcher of handler.go and the envelope signing of entity/sdkdata.go  *)
(* and utils/signer.go.                                                     *)
(*                                                                         *)
(* Goroutines are processes with a program counter: the caller of Run()    *)
(* (Main), one event loop per Run() call (readEvent), one listener per     *)
(* successful dial (listener + readPump) and its write pump.  The gateway, *)
(* the registration endpoint and the local tool server are the             *)
(* environment: their frames, errors and results are chosen with \E.       *)
(***************************************************************************)
EXTENDS Integers, Sequences, FiniteSets, TLC

(***************************************************************************)
(* Bounds of the model.                                                    *)
(***************************************************************************)
\* frames and read errors the gateway side produces in one behaviour
MaxInputs == 3
\* failing outcomes of NewClient / Auth / Dial / socket write in one behaviour
MaxFails == 1
\* Run() calls in SpecRerun (Spec makes RunCalls of them)
MaxRuns == 2
\* inputs of the gateway side in one behaviour of SpecRerun
MaxRerunInputs == 1
\* capacity of a session's outbound queue (1024 in sdk.go:311, scaled down)
OutputCap == 2
\* goroutines calling Write/WriteBinary/Close on one session in SpecSession
MaxApiCallers == 1
\* calls of Write/WriteBinary/Close in one behaviour of SpecSession
MaxApiCalls == 4
\* calls of Auth() and ConnectHeader() in one behaviour of SpecAuth
MaxAuthCalls == 2
\* largest attempts argument of RetryWithBackoff
MaxAttempts == 3
\* largest initialDelay and maxDelay argument of RetryWithBackoff, in nanoseconds
MaxDelay == 4
\* fields of a signed envelope that are altered before it is verified
MaxTampers == 2
\* calls of Session.close() on one session in SpecSession
MaxCloseCalls == 3

(***************************************************************************)
(* Program constants.                                                      *)
(***************************************************************************)
\* make(chan EventType, 1)
EventChanCap == 1
\* main() calls mcpsdk.Run() once
RunCalls == 1

StatusConnected == "connected"
StatusConnecting == "connecting"
StatusDisconnected == "disconnected"
StatusKickout == "kickout"

EventTypeMigrate == "migrate"
EventTypeKickout == "kickout"
EventTypeDisconnect == "disconnect"

StatusNormal == "normal"
StatusStop == "stop"

MethodToolsList == "tools/list"
MethodToolsCall == "tools/call"
MethodKickout == "root/kickout"
MethodMigrate == "root/migrate"
MethodUnknown == "other/unknown"

Methods == {MethodToolsList, MethodToolsCall, MethodKickout, MethodMigrate, MethodUnknown}

\* the caller of Run() is process Main, event loop r is process r
Main == 0
Runs == 1 .. MaxRuns
Callers == {Main} \cup Runs

\* every session but the first of a Run() follows an input that ended one
NumSess == MaxInputs + MaxRuns
Sess == 1 .. NumSess

(***************************************************************************)
(* Signer (utils/signer.go) and envelope codec (entity/sdkdata.go).        *)
(* A string is a sequence of tokens: a token is a character (":" and the   *)
(* newline are the ones that matter) or a run of characters that is never  *)
(* split (a key name, a number, a JSON text).  A payload is a function     *)
(* from keys to strings.  The digest of HMAC-SHA256 is kept symbolic: the   *)
(* pair of the signed string and the key, so two digests are equal exactly *)
(* when both are.  A signature is a digest and the letter case of its hex  *)
(* form.                                                                   *)
(***************************************************************************)
\* the keys of the payloads, in the order sort.Strings puts them
KeyOrder == <<"endpoint", "method", "request", "request_id", "response", "sign", "ts", "version">>

\* one pass of the loop of genSignStr: "key:value\n", nothing for "sign" or
\* for a key the payload does not have
signLine(payload, k) ==
    IF k \in DOMAIN payload /\ k # "sign" THEN <<k, ":">> \o payload[k] \o <<"\n">> ELSE <<>>

\* WsDataSigner.genSignStr: key:value lines in ascending key order, "sign"
\* skipped, the last newline cut off
genSignStr(payload) ==
    LET line(i) == signLine(payload, KeyOrder[i])
        signStr == line(1) \o line(2) \o line(3) \o line(4) \o line(5) \o line(6)
                           \o line(7) \o line(8)
    IN  SubSeq(signStr, 1, Len(signStr) - 1)

Hmac(data, salt) == <<data, salt>>

\* Sha256Algo.Sign: strings.ToUpper(hex(hmac))
AlgoSign(data, salt) == [hex |-> Hmac(data, salt), upper |-> TRUE]

\* a Verify that compares the hex digest as EncodeToString gives it, in lower case
AlgoVerifyRaw(data, salt, sign) == [hex |-> Hmac(data, salt), upper |-> FALSE] = sign

\* Sha256Algo.Verify: strings.ToUpper(hex(hmac)) == sign
AlgoVerify(data, salt, sign) == [hex |-> Hmac(data, salt), upper |-> TRUE] = sign

RequestPayload(w) ==
    [k \in {"request_id", "endpoint", "version", "method", "ts", "request"} |-> w[k]]

ResponsePayload(w) ==
    [k \in {"request_id", "endpoint", "version", "method", "ts", "response"} |-> w[k]]

\* MCPSdkRequest.DoSign
RequestDoSign(w, token) ==
    [w EXCEPT !.sign = AlgoSign(genSignStr(RequestPayload(w)), token)]

\* a DoVerify whose result the handler does not look at
RequestDoVerifyUnchecked(w, token) == TRUE

\* MCPSdkRequest.DoVerify
RequestDoVerify(w, token) ==
    AlgoVerify(genSignStr(RequestPayload(w)), token, w.sign)

\* MCPSdkResponse.DoSign
ResponseDoSign(w, token) ==
    [w EXCEPT !.sign = AlgoSign(genSignStr(ResponsePayload(w)), token)]

\* MCPSdkResponse.DoVerify
ResponseDoVerify(w, token) ==
    AlgoVerify(genSignStr(ResponsePayload(w)), token, w.sign)

\* a frame that does not decode as an envelope
Garbage == [garbage |-> TRUE]
\* the sign field before DoSign
NoSign == [hex |-> <<>>, upper |-> TRUE]
\* the ts the gateway stamps request rid with: its clock moves on
GatewayTs(rid) == 10 + rid
\* request payloads: one that parses as a tool request and one that does not
RequestBodies == {<<"{}">>, <<"{">>}

\* the envelope the gateway builds before signing it
NewRequest(rid, method, ts, body) ==
    [request_id |-> <<rid>>, endpoint |-> <<"ep">>, version |-> <<"v1">>,
     method |-> <<method>>, ts |-> <<ts>>, sign |-> NoSign, request |-> body]

\* the frames of the gateway: signed with the key of the connection ("ok"),
\* signed with a key that is no session token (tokens are positive), or
\* altered after signing
GatewayFrame(rid, method, ts, body, key, kind) ==
    LET signed == RequestDoSign(NewRequest(rid, method, ts, body), key)
    IN  CASE kind = "ok" -> signed
          [] kind = "wrongkey" -> RequestDoSign(NewRequest(rid, method, ts, body), -key)
          [] kind = "tampered" -> [signed EXCEPT !.request_id = <<rid + 100>>]

SignKinds == {"ok", "wrongkey", "tampered"}

\* what lastIn keeps of a frame the gateway sent: "forged" when its signature
\* is not the gateway's over its fields, else "ignored" when its payload
\* does not parse as the tool request it names, else its method
InputKind(method, body, kind) ==
    IF kind # "ok" THEN "forged"
    ELSE IF method \in {MethodToolsList, MethodToolsCall} /\ body # <<"{}">> THEN "ignored"
    ELSE method

\* a response envelope stamped with a ts of its own
NewResponseOwnTs(req, body) ==
    [request_id |-> req.request_id, endpoint |-> req.endpoint, version |-> req.version,
     method |-> req.method, ts |-> <<0>>, sign |-> req.sign, response |-> body]

\* entity.MCPSdkResponse{MCPSdkBaseMsg: req.MCPSdkBaseMsg, Response: body}
NewResponse(req, body) ==
    [request_id |-> req.request_id, endpoint |-> req.endpoint, version |-> req.version,
     method |-> req.method, ts |-> req.ts, sign |-> req.sign, response |-> body]

\* an error result that is not flagged as one
ErrorResultUnflagged(text) ==
    <<[isError |-> FALSE, content |-> <<[type |-> "text", text |-> text]>>]>>

\* json of mcpgo.CallToolResult{IsError: true, Content: [TextContent{text}]}
ErrorResult(text) == <<[isError |-> TRUE, content |-> <<[type |-> "text", text |-> text]>>]>>

\* json of the tool server's answers to ListTools and CallTool
ListToolsResult == <<[tools |-> <<"hello">>]>>
CallToolResult == <<[isError |-> FALSE, content |-> <<[type |-> "text", text |-> "done"]>>]>>

(***************************************************************************)
(* State.                                                                  *)
(***************************************************************************)
VARIABLES
    status,      \* MCPSdk.status
    chan,        \* MCPSdk.internalEventChan, oldest event first
    token,       \* MCPSdk.authToken.Data.Token, 0 when empty
    bconn,       \* MCPSdk.conn: a connection id, 0 when nil
    mcpcli,      \* MCPSdk.mcpcli: a client handle id, 0 when nil
    connClosed,  \* per connection: Close() has been called on it
    connKey,     \* per connection: the token the gateway holds for it
    pc,          \* per caller (Main, event loops): position in Run/readEvent
    runs,        \* Run() calls made
    runErr,      \* result of the last Run(): "none", "nil" or "err"
    lpc,         \* per listener: position in listener/readPump
    sessConn,    \* Session.conn
    sessStatus,  \* Session.status
    output,      \* Session.output
    outClosed,   \* Session.output has been closed
    wpc,         \* per session: position of writePump
    written,     \* per session: the envelopes written to the socket
    nDials,      \* successful websocket dials
    nClients,    \* tool-server clients created
    authCalls,   \* AuthToken.Auth() calls
    toolCalls,   \* ListTools/CallTool calls made by the dispatcher
    inputs,      \* inputs of the gateway side so far
    fails,       \* failing outcomes so far
    drops,       \* <<dropped event, pending event>> of every sendEvent drop
    lastIn,      \* the last input of the gateway side and what the read pump did with it
    lastTool,    \* how the tool client answered for that input: "none", "ok", "err", "panic"
    kicked,      \* kickout() has set the status
    api,         \* a Session under calls of Write/WriteBinary/Close from other goroutines
    authToken,   \* an AuthToken under calls of Auth() and ConnectHeader()
    retry,       \* a call of RetryWithBackoff
    signer       \* an envelope that is signed, altered and verified

bridge == <<status, chan, token, bconn, mcpcli>>
conns == <<connClosed, connKey>>
procs == <<pc, runs, runErr>>
sessions == <<lpc, sessConn, sessStatus, output, outClosed, wpc, written>>
counters == <<nDials, nClients, authCalls, toolCalls, inputs, fails>>
ghosts == <<drops, lastIn, lastTool, kicked>>
units == <<api, authToken, retry, signer>>
vars == <<bridge, conns, procs, sessions, counters, ghosts, units>>

NoInput == [kind |-> "none", sess |-> 0]

\* a call of Auth() or ConnectHeader() that has not been made
NoCall == [op |-> "none"]

\* NewAuthToken: the zero authResponse, and no call made
NewAuthToken ==
    [token |-> "", clientId |-> "", success |-> FALSE, authed |-> FALSE, nCalls |-> 0,
     last |-> NoCall]

\* no call of RetryWithBackoff has been made
NoRetry == [pc |-> "none"]

\* no envelope has been signed
NoEnvelope == [pc |-> "none"]

\* the goroutines that call Write/WriteBinary/Close on the session of api
ApiCallers == 1 .. MaxApiCallers

\* a caller that has not called yet
IdleCall == [pc |-> "idle", t |-> "none", ret |-> "none", enq |-> FALSE]

\* the Session listener() builds: status Normal, an empty open output queue,
\* its write pump running, closeOnce not run (no call of close() made or
\* blocked, no close(s.output))
NewSession ==
    [status |-> StatusNormal, output |-> <<>>, outClosed |-> FALSE, close |-> "idle",
     pump |-> "run",
     closeCalls |-> 0, closeWaiting |-> 0, outCloses |-> 0,
     calls |-> [c \in ApiCallers |-> IdleCall], nCalls |-> 0, late |-> FALSE]

\* NewMCPSdk: status Disconnected, an empty event channel, no token, no conn
Init ==
    /\ status = StatusDisconnected
    /\ chan = <<>>
    /\ token = 0
    /\ bconn = 0
    /\ mcpcli = 0
    /\ connClosed = [c \in Sess |-> FALSE]
    /\ connKey = [c \in Sess |-> 0]
    /\ pc = [c \in Callers |-> IF c = Main THEN "idle" ELSE "none"]
    /\ runs = 0
    /\ runErr = "none"
    /\ lpc = [s \in Sess |-> "none"]
    /\ sessConn = [s \in Sess |-> 0]
    /\ sessStatus = [s \in Sess |-> StatusNormal]
    /\ output = [s \in Sess |-> <<>>]
    /\ outClosed = [s \in Sess |-> FALSE]
    /\ wpc = [s \in Sess |-> "none"]
    /\ written = [s \in Sess |-> <<>>]
    /\ nDials = 0
    /\ nClients = 0
    /\ authCalls = 0
    /\ toolCalls = 0
    /\ inputs = 0
    /\ fails = 0
    /\ drops = {}
    /\ lastIn = NoInput
    /\ lastTool = "none"
    /\ kicked = FALSE
    /\ api = NewSession
    /\ authToken = NewAuthToken
    /\ retry = NoRetry
    /\ signer = NoEnvelope

(***************************************************************************)
(* MCPSdk.sendEvent: a non-blocking send.  stopCtx is context.Background(),*)
(* whose Done() channel is nil, so that case of the select never fires.    *)
(***************************************************************************)
\* a send that queues the event behind the pending one
sendEventQueued(event) ==
    /\ chan' = Append(chan, event)
    /\ drops' = drops

sendEvent(event) ==
    IF Len(chan) < EventChanCap
    THEN /\ chan' = Append(chan, event)
         /\ drops' = drops
    ELSE /\ chan' = chan
         /\ drops' = drops \cup {<<event, Head(chan)>>}

(***************************************************************************)
(* MCPSdk.Run: checkStatusTimer (its timer is stopped by the deferred      *)
(* timer.Stop() when checkStatusTimer returns, and stopCtx.Done() is nil,  *)
(* so its goroutine waits for ever), utils.Go(b.readEvent), then           *)
(* reconnect() on the caller's goroutine.                                  *)
(***************************************************************************)
Run(limit) ==
    /\ pc[Main] = "idle"
    /\ runs < limit
    /\ runs' = runs + 1
    /\ pc' = [pc EXCEPT ![Main] = "R1", ![runs + 1] = "wait"]
    /\ runErr' = "none"
    /\ UNCHANGED <<bridge, conns, sessions, counters, ghosts>>
    /\ UNCHANGED units

\* a Run() that does not hand on the error of reconnect()
ReconnectReturnNil(c, err) ==
    IF c = Main
    THEN /\ pc' = [pc EXCEPT ![c] = "idle"]
         /\ runErr' = "nil"
    ELSE /\ pc' = [pc EXCEPT ![c] = IF err THEN "R1" ELSE "wait"]
         /\ runErr' = runErr

\* where reconnect() returns to: Run() returns its error; RetryWithBackoff
\* (attempts = math.MaxInt) calls it again after a sleep until it returns nil
ReconnectReturn(c, err) ==
    IF c = Main
    THEN /\ pc' = [pc EXCEPT ![c] = "idle"]
         /\ runErr' = IF err THEN "err" ELSE "nil"
    ELSE /\ pc' = [pc EXCEPT ![c] = IF err THEN "R1" ELSE "wait"]
         /\ runErr' = runErr

\* a reconnect() that goes on whatever the status is
ReconnectGuardOpen(c) ==
    /\ pc[c] = "R1"
    /\ pc' = [pc EXCEPT ![c] = "R2"]
    /\ UNCHANGED <<runs, runErr, bridge, conns, sessions, counters, ghosts, units>>

\* reconnect(): the status guard
ReconnectGuard(c) ==
    /\ pc[c] = "R1"
    /\ IF status # StatusDisconnected
       THEN ReconnectReturn(c, FALSE)
       ELSE pc' = [pc EXCEPT ![c] = "R2"] /\ runErr' = runErr
    /\ runs' = runs
    /\ UNCHANGED <<bridge, conns, sessions, counters, ghosts>>
    /\ UNCHANGED units

\* b.conn.Close() of a stale connection (its error is only logged)
CloseStale == IF bconn # 0 THEN [connClosed EXCEPT ![bconn] = TRUE] ELSE connClosed

\* reconnect(): close the stale conn, create the tool client if nil, Connecting
ReconnectPrepare(c) ==
    /\ pc[c] = "R2"
    /\ connClosed' = CloseStale
    /\ \/ /\ mcpcli' = (IF mcpcli = 0 THEN nClients + 1 ELSE mcpcli)
          /\ nClients' = (IF mcpcli = 0 THEN nClients + 1 ELSE nClients)
          /\ status' = StatusConnecting
          /\ pc' = [pc EXCEPT ![c] = "R3"]
          /\ UNCHANGED <<runErr, fails>>
       \/ /\ mcpcli = 0
          /\ fails < MaxFails
          /\ fails' = fails + 1
          /\ status' = StatusDisconnected
          /\ ReconnectReturn(c, TRUE)
          /\ UNCHANGED <<mcpcli, nClients>>
    /\ UNCHANGED <<chan, token, bconn, connKey, runs, sessions, nDials, authCalls,
                   toolCalls, inputs, ghosts>>
    /\ UNCHANGED units

\* autoRegister(): AuthToken.Auth() stores the token of the registration reply
ReconnectAuth(c) ==
    /\ pc[c] = "R3"
    /\ authCalls' = authCalls + 1
    /\ \/ /\ token' = authCalls + 1
          /\ pc' = [pc EXCEPT ![c] = "R4"]
          /\ UNCHANGED <<status, runErr, fails>>
       \/ /\ fails < MaxFails
          /\ fails' = fails + 1
          /\ status' = StatusDisconnected
          /\ ReconnectReturn(c, TRUE)
          /\ UNCHANGED token
    /\ UNCHANGED <<chan, bconn, mcpcli, conns, runs, sessions, nDials, nClients,
                   toolCalls, inputs, ghosts>>
    /\ UNCHANGED units

\* keepalive(): b.conn, _, err = Dial(...); then utils.Go(b.listener)
ReconnectDial(c) ==
    /\ pc[c] = "R4"
    /\ \/ /\ nDials < NumSess
          /\ nDials' = nDials + 1
          /\ bconn' = nDials + 1
          /\ connKey' = [connKey EXCEPT ![nDials + 1] = token]
          /\ lpc' = [lpc EXCEPT ![nDials + 1] = "start"]
          /\ ReconnectReturn(c, FALSE)
          /\ UNCHANGED <<status, fails>>
       \/ /\ fails < MaxFails
          /\ fails' = fails + 1
          /\ bconn' = 0
          /\ status' = StatusDisconnected
          /\ ReconnectReturn(c, TRUE)
          /\ UNCHANGED <<nDials, connKey, lpc>>
    /\ UNCHANGED <<chan, token, mcpcli, connClosed, runs, sessConn, sessStatus, output,
                   outClosed, wpc, written, nClients, authCalls, toolCalls, inputs, ghosts>>
    /\ UNCHANGED units

(***************************************************************************)
(* MCPSdk.listener and Session.readPump.                                   *)
(***************************************************************************)
\* listener(): the Session takes b.conn as it is now; connectHandler returns
\* nil; setConnStatus(Connected); go writePump; readPump starts (and panics
\* in conn.SetReadLimit when the conn is nil, which utils.Go recovers)
ListenerStart(s) ==
    /\ lpc[s] = "start"
    /\ sessConn' = [sessConn EXCEPT ![s] = bconn]
    /\ status' = StatusConnected
    /\ wpc' = [wpc EXCEPT ![s] = "run"]
    /\ lpc' = [lpc EXCEPT ![s] = IF bconn = 0 THEN "panicked" ELSE "read"]
    /\ UNCHANGED <<chan, token, bconn, mcpcli, conns, procs, sessStatus, output,
                   outClosed, written, counters, ghosts>>
    /\ UNCHANGED units

\* what the dispatcher does with a frame: nothing (no reply, no event, no
\* call of the tool client, no panic)
Drop == [reply |-> <<>>, event |-> "none", calls |-> 0, panic |-> FALSE, tool |-> "none"]

\* a replyError that leaves out DoSign: the envelope keeps the request's sign
replyErrorUnsigned(req, text, tok) == NewResponse(req, ErrorResult(text))

\* replyError: the error result in a signed response envelope
replyError(req, text, tok) == ResponseDoSign(NewResponse(req, ErrorResult(text)), tok)

\* what WriteBinary([]byte(replyMessage)) sends when replyMessage was never set
EmptyMessage == [empty |-> TRUE]

\* a root case that leaves the switch instead of returning: the empty
\* replyMessage is written to the session
HandleRootFallThrough(event) == [Drop EXCEPT !.event = event, !.reply = <<EmptyMessage>>]

\* the root/kickout and root/migrate cases: sdk.sendEvent(event); return
HandleRoot(event) == [Drop EXCEPT !.event = event]

\* MCPSdkHandler.HandleMessageBinary on frame, with the token and the client
\* handle it reads ("open", "closed" or "nil") and the tool server's answer
HandleMessageBinary(frame, tok, cli, toolOk) ==
    IF frame = Garbage THEN Drop
    ELSE IF ~RequestDoVerify(frame, tok) THEN Drop
    ELSE IF frame.method = <<MethodToolsList>> THEN
        IF frame.request # <<"{}">> THEN Drop
        ELSE IF cli = "nil" THEN [Drop EXCEPT !.panic = TRUE, !.tool = "panic"]
        ELSE IF cli = "closed" \/ ~toolOk THEN [Drop EXCEPT !.calls = 1, !.tool = "err"]
        ELSE [Drop EXCEPT !.calls = 1, !.tool = "ok",
                !.reply = <<ResponseDoSign(NewResponse(frame, ListToolsResult), tok)>>]
    ELSE IF frame.method = <<MethodToolsCall>> THEN
        IF frame.request # <<"{}">> THEN Drop
        ELSE IF cli = "nil" THEN [Drop EXCEPT !.panic = TRUE, !.tool = "panic"]
        ELSE IF cli = "closed" \/ ~toolOk
             THEN [Drop EXCEPT !.calls = 1, !.tool = "err",
                     !.reply = <<replyError(frame, "boom", tok)>>]
        ELSE [Drop EXCEPT !.calls = 1, !.tool = "ok",
                !.reply = <<ResponseDoSign(NewResponse(frame, CallToolResult), tok)>>]
    ELSE IF frame.method = <<MethodKickout>> THEN HandleRoot(EventTypeKickout)
    ELSE IF frame.method = <<MethodMigrate>> THEN HandleRoot(EventTypeMigrate)
    ELSE Drop

\* b.mcpcli is read by the read pump and written by the event loop without
\* synchronisation: once cleared, the dispatcher sees nil or the closed handle
ClientViews == IF mcpcli = 0 THEN {"nil", "closed"} ELSE {"open"}

\* the frames the gateway can send on session s, each with its InputKind
Frames(s) ==
    {[frame |-> Garbage, kind |-> "ignored"]} \cup
    {[frame |-> GatewayFrame(inputs + 1, m, GatewayTs(inputs + 1), body,
                             connKey[sessConn[s]], kind),
      kind |-> InputKind(m, body, kind)] :
        m \in Methods, body \in RequestBodies, kind \in SignKinds}

\* readPump can read: the session is not closed and its conn not closed locally
CanRead(s) ==
    /\ lpc[s] = "read"
    /\ sessStatus[s] # StatusStop
    /\ ~connClosed[sessConn[s]]

\* readPump: conn.ReadMessage() returns a frame and the handler runs on it.
\* session.WriteBinary blocks while the output queue is full.
ReadFrame(s) ==
    /\ CanRead(s)
    /\ \E in \in Frames(s), cli \in ClientViews, toolOk \in BOOLEAN :
         \E h \in {HandleMessageBinary(in.frame, token, cli, toolOk)} :
         LET frame == in.frame IN
         /\ h.reply # <<>> => Len(output[s]) < OutputCap
         /\ output' = [output EXCEPT ![s] =
                IF h.reply = <<>> THEN @ ELSE Append(@, [env |-> h.reply[1], req |-> frame])]
         /\ IF h.event = "none" THEN UNCHANGED <<chan, drops>> ELSE sendEvent(h.event)
         /\ toolCalls' = toolCalls + h.calls
         /\ lpc' = [lpc EXCEPT ![s] = IF h.panic THEN "panicked" ELSE @]
         /\ lastIn' = [kind |-> in.kind, sess |-> s]
         /\ lastTool' = h.tool
    /\ inputs' = inputs + 1
    /\ UNCHANGED <<status, token, bconn, mcpcli, conns, procs, sessConn, sessStatus,
                   outClosed, wpc, written, nDials, nClients, authCalls, fails, kicked>>
    /\ UNCHANGED units

\* readPump: conn.ReadMessage() fails on the network side (error or io.EOF)
ReadError(s) ==
    /\ CanRead(s)
    /\ inputs' = inputs + 1
    /\ lpc' = [lpc EXCEPT ![s] = "closing"]
    /\ lastIn' = [kind |-> "readerr", sess |-> s]
    /\ lastTool' = "none"
    /\ UNCHANGED <<bridge, conns, procs, sessConn, sessStatus, output, outClosed, wpc,
                   written, nDials, nClients, authCalls, toolCalls, fails, drops, kicked>>
    /\ UNCHANGED units

\* readPump: the session is closed, or ReadMessage fails on the closed conn
ReadClosed(s) ==
    /\ lpc[s] = "read"
    /\ sessStatus[s] = StatusStop \/ connClosed[sessConn[s]]
    /\ lpc' = [lpc EXCEPT ![s] = "closing"]
    /\ UNCHANGED <<bridge, conns, procs, sessConn, sessStatus, output, outClosed, wpc,
                   written, counters, ghosts>>
    /\ UNCHANGED units

\* Session.close(): closeOnce { status = Stop; conn.Close(); close(output) }
SessionClose(s) ==
    /\ lpc[s] = "closing"
    /\ sessStatus' = [sessStatus EXCEPT ![s] = StatusStop]
    /\ connClosed' = [connClosed EXCEPT ![sessConn[s]] = TRUE]
    /\ outClosed' = [outClosed EXCEPT ![s] = TRUE]
    /\ lpc' = [lpc EXCEPT ![s] = "notify"]
    /\ UNCHANGED <<bridge, connKey, procs, sessConn, output, wpc, written, counters, ghosts>>
    /\ UNCHANGED units

\* listener(): disconnectHandler = sendEvent(EventTypeDisconnect)
HandleDisconnect(s) ==
    /\ lpc[s] = "notify"
    /\ sendEvent(EventTypeDisconnect)
    /\ lpc' = [lpc EXCEPT ![s] = "done"]
    /\ UNCHANGED <<status, token, bconn, mcpcli, conns, procs, sessConn, sessStatus,
                   output, outClosed, wpc, written, counters, lastIn, lastTool, kicked>>
    /\ UNCHANGED units

(***************************************************************************)
(* Session.writePump.  s.input is nil and never delivers; the ping ticker  *)
(* writes control frames only and ignores their errors.                    *)
(***************************************************************************)
\* a queue that hands out its newest message first
ReceiveNewest(q) == [msg |-> q[Len(q)], rest |-> SubSeq(q, 1, Len(q) - 1)]

\* msg := <-s.output: the message received and what stays in the queue
Receive(q) == [msg |-> Head(q), rest |-> Tail(q)]

\* writeRaw succeeds: the session is not closed and the conn is open
CanWrite(s) == sessStatus[s] # StatusStop /\ ~connClosed[sessConn[s]]

\* writePump takes a message and writeRaw writes it; or writeRaw fails, on the
\* closed session or conn ("done") or on the network while the session is live
\* ("failed"): errorHandler is called and the pump returns
WriteOne(s) ==
    /\ wpc[s] = "run"
    /\ output[s] # <<>>
    /\ LET r == Receive(output[s]) IN
       /\ output' = [output EXCEPT ![s] = r.rest]
       /\ IF CanWrite(s)
          THEN \/ /\ written' = [written EXCEPT ![s] = Append(@, [env |-> r.msg.env,
                                                     req |-> r.msg.req, tok |-> token])]
                  /\ UNCHANGED <<wpc, fails>>
               \/ /\ fails < MaxFails
                  /\ fails' = fails + 1
                  /\ wpc' = [wpc EXCEPT ![s] = "failed"]
                  /\ written' = written
          ELSE /\ wpc' = [wpc EXCEPT ![s] = "done"]
               /\ UNCHANGED <<written, fails>>
    /\ UNCHANGED <<bridge, conns, procs, lpc, sessConn, sessStatus, outClosed, nDials,
                   nClients, authCalls, toolCalls, inputs, ghosts>>
    /\ UNCHANGED units

\* writePump: the queue is closed and drained (msg, ok := <-s.output; !ok)
WriteDone(s) ==
    /\ wpc[s] = "run"
    /\ output[s] = <<>>
    /\ outClosed[s]
    /\ wpc' = [wpc EXCEPT ![s] = "done"]
    /\ UNCHANGED <<bridge, conns, procs, lpc, sessConn, sessStatus, output, outClosed,
                   written, counters, ghosts>>
    /\ UNCHANGED units

(***************************************************************************)
(* MCPSdk.readEvent, the event loop, with disconnect() and kickout().      *)
(***************************************************************************)
\* event := <-b.internalEventChan and the switch on it
ReadEvent(r) ==
    /\ pc[r] = "wait"
    /\ chan # <<>>
    /\ chan' = Tail(chan)
    /\ pc' = [pc EXCEPT ![r] = CASE Head(chan) = EventTypeMigrate -> "M1"
                                 [] Head(chan) = EventTypeDisconnect -> "D1"
                                 [] Head(chan) = EventTypeKickout -> "K1"]
    /\ UNCHANGED <<status, token, bconn, mcpcli, conns, runs, runErr, sessions,
                   counters, ghosts>>
    /\ UNCHANGED units

\* after disconnect(): the Migrate case is done, the Disconnect case goes on
\* to RetryWithBackoff(reconnect)
AfterDisconnect(at) == IF at \in {"M1", "M2", "M3"} THEN "wait" ELSE "R1"

\* disconnect(): return if already Disconnected, else setConnStatus(Disconnected)
DisconnectStatus(r) ==
    /\ pc[r] \in {"M1", "D1"}
    /\ IF status = StatusDisconnected
       THEN pc' = [pc EXCEPT ![r] = AfterDisconnect(pc[r])] /\ status' = status
       ELSE pc' = [pc EXCEPT ![r] = IF pc[r] = "M1" THEN "M2" ELSE "D2"]
            /\ status' = StatusDisconnected
    /\ UNCHANGED <<chan, token, bconn, mcpcli, conns, runs, runErr, sessions,
                   counters, ghosts>>
    /\ UNCHANGED units

\* disconnect() and kickout(): b.mcpcli.Close(); b.mcpcli = nil
CloseClient(r) ==
    /\ pc[r] \in {"M2", "D2", "K2"}
    /\ mcpcli' = 0
    /\ pc' = [pc EXCEPT ![r] = CASE pc[r] = "M2" -> "M3"
                                 [] pc[r] = "D2" -> "D3"
                                 [] pc[r] = "K2" -> "K3"]
    /\ UNCHANGED <<status, chan, token, bconn, conns, runs, runErr, sessions,
                   counters, ghosts>>
    /\ UNCHANGED units

\* a readEvent that goes on receiving events after kickout()
AfterKickoutLoop == "wait"

\* readEvent returns after kickout()
AfterKickout == "exit"

\* disconnect() and kickout(): b.conn.Close(), and b.conn = nil unless Close
\* failed (it fails on a conn that is closed already)
CloseConn(r) ==
    /\ pc[r] \in {"M3", "D3", "K3"}
    /\ IF bconn # 0 /\ ~connClosed[bconn]
       THEN connClosed' = [connClosed EXCEPT ![bconn] = TRUE] /\ bconn' = 0
       ELSE UNCHANGED <<connClosed, bconn>>
    /\ pc' = [pc EXCEPT ![r] = IF pc[r] = "K3" THEN AfterKickout ELSE AfterDisconnect(pc[r])]
    /\ UNCHANGED <<status, chan, token, mcpcli, connKey, runs, runErr, sessions,
                   counters, ghosts>>
    /\ UNCHANGED units

\* kickout(): setConnStatus(StatusKickout); b.stopCtx.Done() cancels nothing
KickoutStatus(r) ==
    /\ pc[r] = "K1"
    /\ status' = StatusKickout
    /\ kicked' = TRUE
    /\ pc' = [pc EXCEPT ![r] = "K2"]
    /\ UNCHANGED <<chan, token, bconn, mcpcli, conns, runs, runErr, sessions,
                   counters, drops, lastIn, lastTool>>
    /\ UNCHANGED units

\* b.stopCtx is context.Background() from NewMCPSdk on and is never replaced:
\* it cannot be cancelled.  b.stopCtx.Done() in kickout() returns its channel
\* and does nothing else.
stopCtxDone == FALSE

\* the goroutine of checkStatusTimer has returned: it does so only on
\* <-b.stopCtx.Done(), its timer being stopped before it can fire
checkStatusExited == stopCtxDone

(***************************************************************************)
(* Session.Write / WriteBinary / Close called from goroutines other than   *)
(* the one that runs Session.close().  api.calls[c] is caller c's call:    *)
(* its position, the message type t, the value returned and whether its    *)
(* envelope went into the queue.                                           *)
(***************************************************************************)
ErrSessionClosed == "session is closed"

\* websocket.TextMessage (Write), BinaryMessage (WriteBinary), CloseMessage (Close)
MessageTypes == {"text", "binary", "close"}

\* the call of caller c ends returning ret
ApiReturn(c, ret) == [api.calls[c] EXCEPT !.pc = "done", !.ret = ret]

\* Write/WriteBinary/Close: if s.closed() return ErrSessionClosed, else go on
\* to writeMessage
SessionWrite(c, t) ==
    /\ api.calls[c].pc \in {"idle", "done"}
    /\ api.nCalls < MaxApiCalls
    /\ LET call == [IdleCall EXCEPT !.t = t] IN
       api' = [api EXCEPT !.nCalls = @ + 1,
                 !.calls[c] = IF api.status = StatusStop
                              THEN [call EXCEPT !.pc = "done", !.ret = ErrSessionClosed]
                              ELSE [call EXCEPT !.pc = "writeMessage"]]
    /\ UNCHANGED <<bridge, conns, procs, sessions, counters, ghosts, authToken, retry, signer>>

\* writeMessage: if s.closed() { errorHandler(ErrWriteClosed); return }; the
\* caller then returns nil
writeMessage(c) ==
    /\ api.calls[c].pc = "writeMessage"
    /\ api' = [api EXCEPT !.calls[c] = IF api.status = StatusStop
                                       THEN ApiReturn(c, "nil")
                                       ELSE [@ EXCEPT !.pc = "send"]]
    /\ UNCHANGED <<bridge, conns, procs, sessions, counters, ghosts, authToken, retry, signer>>

\* writeMessage: s.output <- message.  The send blocks while the queue is
\* full; on a closed queue it panics, the deferred recover reports
\* ErrWriteClosed to the error handler, and the caller returns nil
OutputSend(c) ==
    /\ api.calls[c].pc = "send"
    /\ IF api.outClosed
       THEN api' = [api EXCEPT !.calls[c] = ApiReturn(c, "nil")]
       ELSE /\ Len(api.output) < OutputCap
            /\ api' = [api EXCEPT !.output = Append(@, [t |-> api.calls[c].t, from |-> c]),
                         !.late = @ \/ api.close = "done",
                         !.calls[c] = [ApiReturn(c, "nil") EXCEPT !.enq = TRUE]]
    /\ UNCHANGED <<bridge, conns, procs, sessions, counters, ghosts, authToken, retry, signer>>

\* a close() that runs its body on every call, without closeOnce
closeStoreEveryCall ==
    /\ api.close \in {"idle", "done"}
    /\ api.closeCalls < MaxCloseCalls
    /\ api' = [api EXCEPT !.status = StatusStop, !.close = "stored", !.closeCalls = @ + 1]
    /\ UNCHANGED <<bridge, conns, procs, sessions, counters, ghosts, authToken, retry, signer>>

\* close(), the first call: closeOnce.Do runs the function:
\* atomic.StoreUint32(&s.status, StatusStop); s.conn.Close()
closeStore ==
    /\ api.close = "idle"
    /\ api.closeCalls < MaxCloseCalls
    /\ api' = [api EXCEPT !.status = StatusStop, !.close = "stored", !.closeCalls = @ + 1]
    /\ UNCHANGED <<bridge, conns, procs, sessions, counters, ghosts, authToken, retry, signer>>

\* close(): close(s.output), and closeOnce is done
closeOutput ==
    /\ api.close = "stored"
    /\ api' = [api EXCEPT !.outClosed = TRUE, !.close = "done", !.outCloses = @ + 1]
    /\ UNCHANGED <<bridge, conns, procs, sessions, counters, ghosts, authToken, retry, signer>>

\* close() called while the first call is inside closeOnce.Do: Do blocks on
\* the mutex of the Once
closeBlocked ==
    /\ api.close = "stored"
    /\ api.closeCalls < MaxCloseCalls
    /\ api' = [api EXCEPT !.closeCalls = @ + 1, !.closeWaiting = @ + 1]
    /\ UNCHANGED <<bridge, conns, procs, sessions, counters, ghosts, authToken, retry, signer>>

\* close() once closeOnce is done, by a blocked call or by a new one: Do
\* returns without running the function
closeReturn ==
    /\ api.close = "done"
    /\ \/ /\ api.closeWaiting > 0
          /\ api' = [api EXCEPT !.closeWaiting = @ - 1]
       \/ /\ api.closeCalls < MaxCloseCalls
          /\ api' = [api EXCEPT !.closeCalls = @ + 1]
    /\ UNCHANGED <<bridge, conns, procs, sessions, counters, ghosts, authToken, retry, signer>>

\* writePump: msg, ok := <-s.output takes the oldest envelope and writeRaw
\* writes it.  The pump returns when writeRaw fails (it does on a closed
\* session, and it can on the network) and after writing a CloseMessage.
OutputReceive ==
    /\ api.pump = "run"
    /\ api.output # <<>>
    /\ \E ok \in IF api.status = StatusStop THEN {FALSE} ELSE BOOLEAN :
          api' = [api EXCEPT !.output = Tail(@),
                             !.pump = IF ok /\ Head(api.output).t # "close" THEN "run"
                                      ELSE "exited"]
    /\ UNCHANGED <<bridge, conns, procs, sessions, counters, ghosts, authToken, retry, signer>>

\* writePump: the queue is closed and drained (!ok): the pump returns
OutputDrained ==
    /\ api.pump = "run"
    /\ api.output = <<>>
    /\ api.outClosed
    /\ api' = [api EXCEPT !.pump = "exited"]
    /\ UNCHANGED <<bridge, conns, procs, sessions, counters, ghosts, authToken, retry, signer>>

(***************************************************************************)
(* AuthToken.Auth and AuthToken.ConnectHeader.  The registration call's    *)
(* outcome is a transport error or a status code with a body; authToken    *)
(* holds authResponse (token, clientId, success), whether an Auth() has    *)
(* returned nil so far (authed), and the last call with what it returned.  *)
(***************************************************************************)
\* bodies of the registration reply: not JSON, or {success, data: {token, client_id}}
NotJson == [json |-> FALSE]
AuthBodies ==
    {NotJson} \cup
    [json : {TRUE}, success : BOOLEAN, token : {"", "tok"}, clientId : {"", "cid"}]

\* outcomes of the HTTP round trip
HttpOutcomes == [transportErr : BOOLEAN, code : {200, 204, 401, 500}, body : AuthBodies]

\* utils.HttpGet: the body of whatever response arrived; an error only when
\* the request could not be made or the body not read
HttpGet(out) ==
    IF out.transportErr THEN [body |-> NotJson, err |-> TRUE]
    ELSE [body |-> out.body, err |-> FALSE]

\* AuthToken.Auth on authResponse a: HttpGet, json.Unmarshal into
\* a.authResponse, then the Success check
AuthResult(a, out) ==
    LET got == HttpGet(out) IN
    IF got.err \/ ~got.body.json THEN [token |-> a.token, clientId |-> a.clientId,
                                        success |-> a.success, err |-> TRUE]
    ELSE [token |-> got.body.token, clientId |-> got.body.clientId,
          success |-> got.body.success, err |-> ~got.body.success]

\* AuthToken.ConnectHeader on authResponse a: the upgrade URL with
\* client_id = a.clientId and the header set signed with a.token as the key
ConnectHeaderResult(a) ==
    [url |-> <<"/ws/mcp", "client_id", a.clientId>>,
     header |-> [access_id |-> "ak", sign_method |-> "HMAC-SHA256",
                 sign |-> AlgoSign(<<"access_id", "client_id", a.clientId, "/ws/mcp">>, a.token)],
     err |-> FALSE]

\* a call of Auth() whose registration request has outcome out
Auth(out) ==
    /\ authToken.nCalls < MaxAuthCalls
    /\ LET r == AuthResult(authToken, out) IN
       authToken' = [token |-> r.token, clientId |-> r.clientId, success |-> r.success,
                     authed |-> authToken.authed \/ ~r.err,
                     nCalls |-> authToken.nCalls + 1,
                     last |-> [op |-> "Auth", out |-> out, err |-> r.err]]
    /\ UNCHANGED <<bridge, conns, procs, sessions, counters, ghosts, api, retry, signer>>

\* a call of ConnectHeader()
ConnectHeader ==
    /\ authToken.nCalls < MaxAuthCalls
    /\ LET r == ConnectHeaderResult(authToken) IN
       authToken' = [authToken EXCEPT !.nCalls = @ + 1,
                       !.last = [op |-> "ConnectHeader", authed |-> authToken.authed,
                                 url |-> r.url, header |-> r.header, err |-> r.err]]
    /\ UNCHANGED <<bridge, conns, procs, sessions, counters, ghosts, api, retry, signer>>

(***************************************************************************)
(* utils.RetryWithBackoff.  fn is given by k, the number of the call on    *)
(* which it first returns nil (0: it returns an error every time).  retry  *)
(* holds the arguments, the loop's i and delay, the number of calls of fn  *)
(* made, the last jitter and sleep, the total slept, and the result once    *)
(* the function has returned.  Durations are in nanoseconds.               *)
(***************************************************************************)
Min(a, b) == IF a <= b THEN a ELSE b

\* a sleep of the capped delay with the jitter added on top of the cap
SleepJitterOnTop(delay, jitter, maxDelay) == Min(delay, maxDelay) + jitter

\* a sleep of the delay and the jitter that is not capped
SleepUncapped(delay, jitter, maxDelay) == delay + jitter

\* sleep := delay + jitter; if sleep > maxDelay { sleep = maxDelay }
SleepFor(delay, jitter, maxDelay) == Min(delay + jitter, maxDelay)

\* a delay that is capped but not doubled
NextDelayFlat(delay, maxDelay) == Min(delay, maxDelay)

\* delay = time.Duration(math.Min(float64(delay)*2, float64(maxDelay))): the
\* conversions to float64 and back are exact for the durations of the model
\* (they are for every duration below 2^53 ns)
NextDelay(delay, maxDelay) == Min(delay * 2, maxDelay)

\* rand.Int63n(n) panics when n <= 0 and returns a value in 0 .. n-1 otherwise
Int63nPanics(n) == n <= 0
Int63n(n) == 0 .. n - 1

\* the call: delay := initialDelay, i := 0
RetryWithBackoff(attempts, initialDelay, maxDelay, k) ==
    /\ retry = NoRetry
    /\ retry' = [pc |-> "loop", attempts |-> attempts, initialDelay |-> initialDelay,
                 maxDelay |-> maxDelay, k |-> k,
                 i |-> 0, delay |-> initialDelay, calls |-> 0, jitter |-> 0, sleep |-> 0,
                 slept |-> 0, panicked |-> FALSE, result |-> "none"]
    /\ UNCHANGED <<bridge, conns, procs, sessions, counters, ghosts, api, authToken, signer>>

\* the loop condition fails: return errors.New("retry failed")
RetryExhausted ==
    /\ retry.pc = "loop"
    /\ retry.i >= retry.attempts
    /\ retry' = [retry EXCEPT !.pc = "done", !.result = "retry failed"]
    /\ UNCHANGED <<bridge, conns, procs, sessions, counters, ghosts, api, authToken, signer>>

\* one iteration: fn(); return nil on success; before another attempt draw
\* the jitter, sleep and double the delay.  A panic of Int63n is caught by
\* the deferred recover and the function returns the zero value of its
\* unnamed result, nil.
RetryIteration ==
    /\ retry.pc = "loop"
    /\ retry.i < retry.attempts
    /\ LET calls == retry.calls + 1
           half == retry.delay \div 2 IN
       IF calls = retry.k
       THEN retry' = [retry EXCEPT !.calls = calls, !.pc = "done", !.result = "nil"]
       ELSE IF retry.i < retry.attempts - 1
       THEN IF Int63nPanics(half)
            THEN retry' = [retry EXCEPT !.calls = calls, !.pc = "done", !.result = "nil",
                                        !.panicked = TRUE]
            ELSE \E jitter \in Int63n(half) :
                    LET sleep == SleepFor(retry.delay, jitter, retry.maxDelay) IN
                    retry' = [retry EXCEPT !.calls = calls, !.i = @ + 1,
                                !.jitter = jitter, !.sleep = sleep,
                                !.slept = @ + sleep,
                                !.delay = NextDelay(retry.delay, retry.maxDelay)]
       ELSE retry' = [retry EXCEPT !.calls = calls, !.i = @ + 1]
    /\ UNCHANGED <<bridge, conns, procs, sessions, counters, ghosts, api, authToken, signer>>

(***************************************************************************)
(* DoSign and DoVerify on any envelope.  Every field of the envelope is a  *)
(* string: a plain word, or a word followed by a newline, a key name, a    *)
(* colon and a word.  signer holds the envelope as it was signed, the      *)
(* envelope as it is now, the key, and what DoVerify returned.             *)
(***************************************************************************)
Kinds == {"request", "response"}
Keys == {"k1", "k2"}

\* the fields that DoSign and DoVerify put into the payload
SignedFields(kind) == {"request_id", "endpoint", "version", "method", "ts", kind}

\* the values of a field
Strings == {<<"c">>, <<"d">>, <<"c", "\n", "method", ":", "c">>}

\* the envelopes of a kind, not signed yet: endpoint, method and the payload
\* take every value, request_id, version and ts one value
Envelopes(kind) ==
    {[f \in SignedFields(kind) \cup {"sign"} |->
          IF f = "sign" THEN NoSign
          ELSE IF f \in DOMAIN e THEN e[f] ELSE <<"c">>] :
        e \in [{"endpoint", "method", kind} -> Strings]}

DoSign(kind, w, key) ==
    IF kind = "request" THEN RequestDoSign(w, key) ELSE ResponseDoSign(w, key)

DoVerify(kind, w, key) ==
    IF kind = "request" THEN RequestDoVerify(w, key) ELSE ResponseDoVerify(w, key)

\* w.DoSign(key) on a fresh envelope
SignerSign(kind, w, key) ==
    /\ signer = NoEnvelope
    /\ signer' = [pc |-> "signed", kind |-> kind, key |-> key,
                  signed |-> DoSign(kind, w, key), env |-> DoSign(kind, w, key),
                  tampers |-> 0, lowered |-> FALSE, vkey |-> key, ok |-> FALSE]
    /\ UNCHANGED <<bridge, conns, procs, sessions, counters, ghosts, api, authToken, retry>>

\* a signed field of the envelope is given another value; the sign stays
SignerTamper(f, v) ==
    /\ signer.pc = "signed"
    /\ ~signer.lowered
    /\ signer.tampers < MaxTampers
    /\ f \in SignedFields(signer.kind)
    /\ v # signer.env[f]
    /\ signer' = [signer EXCEPT !.env = [@ EXCEPT ![f] = v], !.tampers = @ + 1]
    /\ UNCHANGED <<bridge, conns, procs, sessions, counters, ghosts, api, authToken, retry>>

\* the sign is put into lower case (strings.ToLower of the hex digest)
SignerLower ==
    /\ signer.pc = "signed"
    /\ ~signer.lowered
    /\ signer.tampers = 0
    /\ signer' = [signer EXCEPT !.env = [@ EXCEPT !.sign = [@ EXCEPT !.upper = FALSE]],
                                !.lowered = TRUE]
    /\ UNCHANGED <<bridge, conns, procs, sessions, counters, ghosts, api, authToken, retry>>

\* w.DoVerify(key) on the envelope as it is now
SignerVerify(key) ==
    /\ signer.pc = "signed"
    /\ signer' = [signer EXCEPT !.pc = "verified", !.vkey = key,
                                !.ok = DoVerify(signer.kind, signer.env, key)]
    /\ UNCHANGED <<bridge, conns, procs, sessions, counters, ghosts, api, authToken, retry>>

(***************************************************************************)
(* Specifications.                                                         *)
(***************************************************************************)
\* Run() as main calls it
RunOnce == Run(RunCalls)

\* a further Run() call on an MCPSdk that was kicked out
RunAgain == runs >= RunCalls /\ kicked /\ Run(MaxRuns)

Reconnect ==
    \E c \in Callers :
        ReconnectGuard(c) \/ ReconnectPrepare(c) \/ ReconnectAuth(c) \/ ReconnectDial(c)

EventLoop ==
    \E r \in Runs :
        ReadEvent(r) \/ DisconnectStatus(r) \/ CloseClient(r) \/ CloseConn(r) \/ KickoutStatus(r)

Listener == \E s \in Sess : ListenerStart(s) \/ ReadClosed(s) \/ SessionClose(s) \/ HandleDisconnect(s)

WritePump == \E s \in Sess : WriteOne(s) \/ WriteDone(s)

\* the steps of the program's goroutines
Program == RunOnce \/ Reconnect \/ EventLoop \/ Listener \/ WritePump

\* the steps the gateway side decides, at most limit of them
Gateway(limit) == inputs < limit /\ \E s \in Sess : ReadFrame(s) \/ ReadError(s)

Next == Program \/ Gateway(MaxInputs)

Spec == Init /\ [][Next]_vars

\* every goroutine that can take a step eventually takes one
FairSpec == Spec /\ WF_vars(Program)

\* the bridge when Run() may be called again after a kickout
NextRerun == Program \/ RunAgain \/ Gateway(MaxRerunInputs)

SpecRerun == Init /\ [][NextRerun]_vars

\* a Session whose Write/WriteBinary/Close are called while close() is called
\* any number of times
NextSession ==
    \/ \E c \in ApiCallers : (\E t \in MessageTypes : SessionWrite(c, t)) \/ writeMessage(c) \/ OutputSend(c)
    \/ closeStore
    \/ closeOutput
    \/ closeBlocked
    \/ closeReturn
    \/ OutputReceive
    \/ OutputDrained

SpecSession == Init /\ [][NextSession]_vars

\* a call that can go on does, and so do the write pump and a close() that
\* was called; whether close() is ever called is up to the listener
FairSpecSession ==
    /\ SpecSession
    /\ WF_vars(\E c \in ApiCallers : writeMessage(c) \/ OutputSend(c))
    /\ WF_vars(OutputReceive \/ OutputDrained)
    /\ WF_vars(closeOutput \/ closeReturn)

\* an AuthToken on which Auth() and ConnectHeader() are called in any order
NextAuth == (\E out \in HttpOutcomes : Auth(out)) \/ ConnectHeader

SpecAuth == Init /\ [][NextAuth]_vars

\* one call of RetryWithBackoff with any arguments and any fn
NextRetry ==
    \/ \E attempts \in 0 .. MaxAttempts, initialDelay \in 0 .. MaxDelay,
          maxDelay \in 0 .. MaxDelay, k \in 0 .. MaxAttempts :
          RetryWithBackoff(attempts, initialDelay, maxDelay, k)
    \/ RetryIteration
    \/ RetryExhausted

SpecRetry == Init /\ [][NextRetry]_vars

\* one envelope is signed, then altered or not, then verified
NextSigner ==
    \/ \E kind \in Kinds, key \in Keys : \E w \in Envelopes(kind) : SignerSign(kind, w, key)
    \/ \E f \in SignedFields("request") \cup SignedFields("response"), v \in Strings :
          SignerTamper(f, v)
    \/ SignerLower
    \/ \E key \in Keys : SignerVerify(key)

SpecSigner == Init /\ [][NextSigner]_vars

TypeOK ==
    /\ status \in {StatusConnected, StatusConnecting, StatusDisconnected, StatusKickout}
    /\ Len(chan) <= EventChanCap
    /\ \A s \in Sess : Len(output[s]) <= OutputCap

\* under Spec a dial never finds the session ids used up
DialCapFree == \A c \in Callers : pc[c] = "R4" => nDials < NumSess

(***************************************************************************)
(* Properties.                                                             *)
(***************************************************************************)
Range(q) == {q[i] : i \in 1 .. Len(q)}

\* a listener whose read pump is running on a session started after s
ConnectedAfter(s) ==
    /\ status = StatusConnected
    /\ \E t \in Sess : t > s /\ lpc[t] = "read"

\* a kickout frame was accepted: its event is pending, was dropped or was handled
KickoutSeen ==
    \/ kicked
    \/ EventTypeKickout \in Range(chan)
    \/ \E d \in drops : d[1] = EventTypeKickout

\* C1: once the status is Kickout no later step changes it, a further Run()
\* included.
C1_KickoutIsTerminal == [][status = StatusKickout => status' = StatusKickout]_vars

\* C2: a correctly signed root/migrate frame dispatched on a Connected session
\* leads to the bridge being Connected again on a new session.  Stated for the
\* behaviours in which no kickout frame was accepted and the gateway sends
\* nothing but migrate frames on that session afterwards and then may close the
\* connection.
C2_MigrateReconnects ==
    \A s \in Sess :
        (lastIn = [kind |-> MethodMigrate, sess |-> s] /\ status = StatusConnected)
            ~> \/ ConnectedAfter(s)
               \/ KickoutSeen
               \/ lastIn.sess = s /\ lastIn.kind \notin {MethodMigrate, "readerr"}

\* C3: a read error or EOF on a Connected session leads to the bridge being
\* Connected again on a new session, unless a kickout intervenes.
C3_ReadErrorReconnects ==
    \A s \in Sess :
        (lastIn = [kind |-> "readerr", sess |-> s] /\ status = StatusConnected)
            ~> (ConnectedAfter(s) \/ KickoutSeen)

\* C4: a correctly signed root/kickout frame dispatched on a live session leads
\* to status Kickout with the event loop terminated.
C4_KickoutTerminates ==
    (lastIn.kind = MethodKickout) ~> (status = StatusKickout /\ pc[RunCalls] = "exit")

\* a caller is inside reconnect() past the status guard
ReconnectActive(c) == pc[c] \in {"R2", "R3", "R4"}

C6_DropsAreDuplicates == \A d \in drops : d[1] = d[2]

\* C7: every response envelope written to the socket verifies under the token
\* that is current when it is written.
C7_WrittenVerifies ==
    \A s \in Sess : \A e \in Range(written[s]) : ResponseDoVerify(e.env, e.tok)

\* a success reply and a tool-error reply have been written
C7_Witness ==
    \E s \in Sess :
        /\ \E e \in Range(written[s]) : e.env.response = ErrorResult("boom")
        /\ \E e \in Range(written[s]) : e.env.response = ListToolsResult

\* C8: a frame whose signature is not valid for its fields under the session
\* token has no effect: no tool call, no reply, no event, status and session
\* unchanged.
C8_ForgedFrameIgnored ==
    [][(inputs' = inputs + 1 /\ lastIn'.kind = "forged")
          => /\ toolCalls' = toolCalls
             /\ output' = output
             /\ chan' = chan /\ drops' = drops
             /\ status' = status
             /\ sessStatus' = sessStatus /\ lpc' = lpc]_vars

\* a forged frame has been read on a Connected session that stays in its read pump
C8_Witness ==
    /\ lastIn.kind = "forged"
    /\ status = StatusConnected
    /\ lpc[lastIn.sess] = "read"

BaseEqual(a, b) ==
    /\ a.request_id = b.request_id
    /\ a.endpoint = b.endpoint
    /\ a.version = b.version
    /\ a.method = b.method
    /\ a.ts = b.ts

\* C9: every response envelope, queued or written, has the request_id, endpoint,
\* version, method and ts of the request it answers.
C9_ResponseEchoesBase ==
    \A s \in Sess : \A e \in Range(output[s]) \cup Range(written[s]) : BaseEqual(e.env, e.req)

\* a tool-error reply is queued and a success reply has been written
C9_Witness ==
    \E s \in Sess :
        /\ \E e \in Range(output[s]) : e.env.response = ErrorResult("boom")
        /\ \E e \in Range(written[s]) : e.env.response = CallToolResult

\* C10: the responses of a session are written in the order in which their
\* requests were read (request ids are issued in reading order).
C10_WrittenInReadOrder ==
    \A s \in Sess : \A i, j \in 1 .. Len(written[s]) :
        i < j => written[s][i].req.request_id[1] < written[s][j].req.request_id[1]

\* two responses of one session have been written
C10_Witness == \E s \in Sess : Len(written[s]) >= 2

\* C11: a correctly signed tools/call request for which the tool client returns
\* an error gets exactly one response envelope enqueued, signed under the
\* session token, whose payload is the error result (isError true, one text
\* item with the error text), and the session goes on reading.
C11_ToolErrorReplied ==
    [][(inputs' = inputs + 1 /\ lastIn'.kind = MethodToolsCall /\ lastTool' = "err")
          => LET s == lastIn'.sess
                 n == Len(output'[s]) IN
             /\ n = Len(output[s]) + 1
             /\ output' = [output EXCEPT ![s] = Append(@, output'[s][n])]
             /\ output'[s][n].env.response[1].isError = TRUE
             /\ output'[s][n].env.response[1].content = <<[type |-> "text", text |-> "boom"]>>
             /\ ResponseDoVerify(output'[s][n].env, token)
             /\ lpc'[s] = "read" /\ sessStatus'[s] = StatusNormal]_vars

\* the tool client has returned an error for a tools/call request and the
\* error reply is the newest envelope of the queue of a session still reading
C11_Witness ==
    /\ lastIn.kind = MethodToolsCall /\ lastTool = "err"
    /\ lpc[lastIn.sess] = "read"
    /\ output[lastIn.sess] # <<>>
    /\ output[lastIn.sess][Len(output[lastIn.sess])].env.response[1].isError = TRUE

\* the send of event by one sendEvent call at most
SentAtMostOnce(event) ==
    \/ chan' = chan /\ drops' = drops
    \/ chan' = Append(chan, event) /\ drops' = drops
    \/ chan # <<>> /\ chan' = chan /\ drops' = drops \cup {<<event, Head(chan)>>}

\* C12: no response envelope is enqueued for a root/kickout, root/migrate or
\* unknown-method frame; a root frame sends its event at most once, an unknown
\* method sends none.
C12_NoReplyToRootOrUnknown ==
    [][inputs' = inputs + 1
          => /\ lastIn'.kind \in {MethodKickout, MethodMigrate, MethodUnknown} => output' = output
             /\ lastIn'.kind = MethodKickout => SentAtMostOnce(EventTypeKickout)
             /\ lastIn'.kind = MethodMigrate => SentAtMostOnce(EventTypeMigrate)
             /\ lastIn'.kind = MethodUnknown => chan' = chan /\ drops' = drops]_vars

\* a kickout frame, a migrate frame and an unknown-method frame have been
\* read on one session and nothing was enqueued for them
C12_Witness ==
    /\ lastIn.kind = MethodUnknown
    /\ chan = <<EventTypeKickout>>
    /\ <<EventTypeMigrate, EventTypeKickout>> \in drops
    /\ output[lastIn.sess] = <<>> /\ written[lastIn.sess] = <<>>

\* C13: for every interleaving of Write/WriteBinary/Close with close(), nothing
\* is enqueued once close() has returned, a call that did not enqueue its
\* envelope returns ErrSessionClosed, and a call returns nil only if its
\* envelope was enqueued.
C13_WriteContract ==
    /\ ~api.late
    /\ \A c \in ApiCallers :
          api.calls[c].pc = "done"
             => /\ ~api.calls[c].enq => api.calls[c].ret = ErrSessionClosed
                /\ api.calls[c].ret = "nil" => api.calls[c].enq

\* C14: a socket write that fails in the write pump while the session is live
\* leads to the session being torn down: status Stop, queue closed, and the
\* disconnect handler invoked.
C14_WriteFailureTearsDown ==
    \A s \in Sess :
        (wpc[s] = "failed" /\ sessStatus[s] = StatusNormal)
            ~> (sessStatus[s] = StatusStop /\ outClosed[s] /\ lpc[s] = "done")

\* C15: when reconnect() fails at a step (tool client, Auth, ConnectHeader or
\* dial) it returns the error with the status Disconnected and no listener or
\* session started; Run() returns the result of its one reconnect() call.
C15_ReconnectFailureSurfaces ==
    [][/\ \A c \in Callers :
            (ReconnectActive(c) /\ pc'[c] # pc[c] /\ fails' = fails + 1)
               => /\ status' = StatusDisconnected
                  /\ nDials' = nDials /\ lpc' = lpc /\ wpc' = wpc
                  /\ c = Main => pc'[c] = "idle" /\ runErr' = "err"
                  /\ c # Main => pc'[c] = "R1"
       /\ (pc[Main] \in {"R1", "R2", "R3", "R4"} /\ pc'[Main] = "idle" /\ fails' = fails)
            => runErr' = "nil"]_vars

\* Run() has returned the error of a failed reconnect(): the status is
\* Disconnected and no listener was started
C15_Witness ==
    /\ runErr = "err" /\ pc[Main] = "idle"
    /\ status = StatusDisconnected
    /\ \A s \in Sess : lpc[s] = "none"

\* C16: Auth() returns nil only if the registration call had no transport
\* error, a 2xx status, a body that parsed as JSON with success = true, and
\* non-empty data.token and data.clientId.
C16_AuthRequiresValidReply ==
    (authToken.last.op = "Auth" /\ ~authToken.last.err)
       => LET out == authToken.last.out IN
          /\ ~out.transportErr
          /\ out.code \in 200 .. 299
          /\ out.body.json /\ out.body.success
          /\ out.body.token # "" /\ out.body.clientId # ""

\* C17: ConnectHeader() called when no Auth() has returned nil before returns
\* an error and neither an upgrade URL nor a signed header set.
C17_ConnectHeaderNeedsAuth ==
    (authToken.last.op = "ConnectHeader" /\ ~authToken.last.authed) => authToken.last.err

\* C18: at most one gateway connection is live: in no reachable state do two
\* listeners have a running read pump, and no two invocations of reconnect()
\* are both past the status guard (so no two of them both dial).
C18_SingleLiveConnection ==
    /\ Cardinality({s \in Sess : lpc[s] = "read"}) <= 1
    /\ Cardinality({c \in Callers : ReconnectActive(c)}) <= 1

\* C19: a bridge left Disconnected by a failed first attempt of Run()
\* eventually makes a new reconnect attempt (the health check calls
\* reconnect() when it finds the status Disconnected).
C19_DisconnectedRetries ==
    (runErr = "err" /\ pc[Main] = "idle" /\ status = StatusDisconnected)
        ~> (\E c \in Callers : pc[c] \in {"R1", "R2", "R3", "R4"})

\* C20: RetryWithBackoff stops at the first success: when fn first returns
\* nil on its k-th call with k <= attempts the result is nil after exactly k
\* calls; otherwise the result is "retry failed" after exactly attempts calls
\* (none when attempts = 0).
C20_RetryStopsAtFirstSuccess ==
    retry.pc = "done"
       => IF retry.k \in 1 .. retry.attempts
          THEN retry.result = "nil" /\ retry.calls = retry.k
          ELSE retry.result = "retry failed" /\ retry.calls = retry.attempts

\* the sum over the first n retry gaps i of min(initial * 2^i, max)
RECURSIVE GapSum(_, _, _)
GapSum(initial, max, n) ==
    IF n = 0 THEN 0 ELSE GapSum(initial, max, n - 1) + Min(initial * 2 ^ (n - 1), max)

Altered == \E f \in SignedFields(signer.kind) : signer.env[f] # signer.signed[f]

\* C23: verifying an envelope (request or response) with key k immediately
\* after signing it with k returns true, for every envelope and every key.
C23_VerifyAfterSign ==
    (signer.pc = "verified" /\ signer.env = signer.signed /\ signer.vkey = signer.key)
       => signer.ok

\* a response envelope with a field that holds a newline and a colon has been
\* signed and verified
C23_Witness ==
    /\ signer.pc = "verified" /\ signer.env = signer.signed /\ signer.vkey = signer.key
    /\ signer.kind = "response" /\ signer.key = "k2" /\ signer.ok
    /\ Len(signer.env.response) > 1

\* C24: changing any signed field of a signed envelope makes verification
\* with the signing key return false, also when field values hold ':' or
\* newline characters.
C24_AlteredFieldFailsVerify ==
    (signer.pc = "verified" /\ signer.vkey = signer.key /\ ~signer.lowered /\ Altered)
       => ~signer.ok

\* C25: a sign that equals the correct hex digest up to letter case (all in
\* lower case) verifies as true.
C25_VerifyIgnoresCase ==
    (signer.pc = "verified" /\ signer.vkey = signer.key /\ signer.lowered /\ ~Altered)
       => signer.ok

\* one sendEvent call has placed event in the channel or dropped it
PlacedOrDropped(event) ==
    \/ chan' = Append(chan, event) /\ drops' = drops
    \/ chan # <<>> /\ chan' = chan /\ drops' = drops \cup {<<event, Head(chan)>>}

\* C26: sendEvent never blocks its caller: the listener that has to report a
\* disconnect can always take that step, every call of sendEvent (by the
\* listener or by the read pump's handler) either places the event in the
\* channel or drops it, and the channel never holds more than one event.
C26_SendEventNeverBlocks ==
    /\ [](Len(chan) <= 1)
    /\ [](\A s \in Sess : lpc[s] = "notify" => ENABLED HandleDisconnect(s))
    /\ [][/\ \A s \in Sess : (lpc[s] = "notify" /\ lpc'[s] = "done")
                                  => PlacedOrDropped(EventTypeDisconnect)
          /\ (inputs' = inputs + 1 /\ lastIn'.kind = MethodKickout)
                => PlacedOrDropped(EventTypeKickout)
          /\ (inputs' = inputs + 1 /\ lastIn'.kind = MethodMigrate)
                => PlacedOrDropped(EventTypeMigrate)]_vars

\* a listener has reported its disconnect while the channel was full
C26_Witness ==
    /\ Len(chan) = 1
    /\ \E s \in Sess : lpc[s] = "done" /\ <<EventTypeDisconnect, Head(chan)>> \in drops

\* C27: reconnect() invoked while the status is Connecting, Connected or
\* Kickout returns success and changes nothing: the status, the current
\* WebSocket, the tool-server client and the token are untouched and no
\* Auth() call and no dial is made.
C27_ReconnectRefusesUnlessDisconnected ==
    [][\A c \in Callers :
          (pc[c] = "R1" /\ pc'[c] # "R1" /\ status # StatusDisconnected)
             => /\ pc'[c] = (IF c = Main THEN "idle" ELSE "wait")
                /\ c = Main => runErr' = "nil"
                /\ UNCHANGED <<status, bconn, mcpcli, token, connClosed, connKey>>
                /\ UNCHANGED <<authCalls, nDials, nClients, lpc>>]_vars

\* a second Run() has returned nil on a kicked-out bridge without a dial
C27_Witness ==
    /\ runs = 2 /\ pc[Main] = "idle" /\ runErr = "nil"
    /\ status = StatusKickout /\ nDials = 1 /\ authCalls = 1

\* C28: every status change is an edge of the lifecycle diagram: the status
\* becomes Connecting only from Disconnected and Connected only from
\* Connecting, and the initial status is Disconnected.
C28_StatusFollowsLifecycle ==
    /\ status = StatusDisconnected
    /\ [][/\ (status' = StatusConnecting /\ status # StatusConnecting)
                => status = StatusDisconnected
          /\ (status' = StatusConnected /\ status # StatusConnected)
                => status = StatusConnecting]_vars

\* C29: the tool-server client is created at most once: across disconnects,
\* migrates and reconnects every session uses the handle that the first
\* reconnect() created.
C29_ClientCreatedOnce == nClients <= 1 /\ mcpcli \in {0, 1}

\* C30: the stored token is empty before the first Auth() and is cleared by
\* the Kickout teardown: in every state with status Kickout in which
\* kickout() has returned, the token is empty.
C30_TokenClearedOnKickout ==
    /\ authCalls = 0 => token = 0
    /\ (status = StatusKickout /\ \E c \in Runs : pc[c] = "exit") => token = 0

\* a step of a read pump in which the dispatcher has read the token
DispatcherReadsToken ==
    inputs' = inputs + 1 /\ lastIn'.kind \notin {"readerr", "ignored"}

\* C31: the token is written only by Auth() inside reconnect() while the
\* status is Connecting and no read pump can dispatch a message, and the
\* dispatcher reads it only while the status is Connected.
C31_TokenWriteReadDisjoint ==
    [][/\ token' # token
            => /\ \E c \in Callers : pc[c] = "R3" /\ pc'[c] = "R4"
               /\ status = StatusConnecting
               /\ \A s \in Sess : ~CanRead(s)
       /\ DispatcherReadsToken => status = StatusConnected]_vars

\* C32: close() is one-shot and final: however many calls of close() are
\* made, at the same time or one after another, the outbound queue is closed
\* exactly once, and the session status never leaves Stop.
C32_CloseOnce ==
    /\ [](api.outCloses <= 1)
    /\ [](api.close = "done" => api.outCloses = 1 /\ api.outClosed /\ api.status = StatusStop)
    /\ [][api.status = StatusStop => api'.status = StatusStop]_vars

\* three calls of close() were made, one of them is still blocked in
\* closeOnce.Do, and the queue has been closed once
C32_Witness ==
    /\ api.close = "done" /\ api.closeCalls = 3 /\ api.closeWaiting = 1
    /\ api.outCloses = 1 /\ api.status = StatusStop

\* the read pump of session s has ended: it returned or it panicked
ReadPumpEnded(s) == lpc[s] \in {"closing", "panicked"}

\* C33: whenever the read pump of a session ends, for whatever reason, the
\* listener closes the session and invokes the disconnect handler, once, and
\* the write pump of the session exits.
C33_DeadSessionPumpsExit ==
    /\ \A s \in Sess :
          ReadPumpEnded(s) ~> (lpc[s] = "done" /\ outClosed[s] /\ wpc[s] \in {"done", "failed"})
    /\ [][\A s \in Sess : lpc'[s] = "done" /\ lpc[s] # "done"
                             => lpc[s] = "notify" /\ sessStatus[s] = StatusStop]_vars

\* every task of the bridge has terminated: the event loop, the health-check
\* task, and the read pump, listener and write pump of every session
AllTasksExited ==
    /\ pc[RunCalls] = "exit"
    /\ checkStatusExited
    /\ \A s \in Sess : lpc[s] \in {"none", "done", "panicked"}
    /\ \A s \in Sess : wpc[s] \in {"none", "done", "failed"}

\* C34: processing a Kickout event cancels the stop context, and every task
\* the bridge started (event loop, health check, read pump, write pump)
\* terminates afterwards.
C34_KickoutStopsAllTasks == kicked ~> (stopCtxDone /\ AllTasksExited)

\* C35: every correctly signed tools/list or tools/call frame whose payload
\* parses gets exactly one response envelope enqueued on its session, also
\* when ListTools or CallTool returns an error.
C35_OneResponsePerToolRequest ==
    [][(inputs' = inputs + 1 /\ lastIn'.kind \in {MethodToolsList, MethodToolsCall})
          => LET s == lastIn'.sess IN
             /\ Len(output'[s]) = Len(output[s]) + 1
             /\ output' = [output EXCEPT ![s] = Append(@, output'[s][Len(output'[s])])]]_vars

\* event loop r is inside disconnect() or kickout(), past the status change
TearingDown(r) == pc[r] \in {"M2", "M3", "D2", "D3", "K2", "K3"}

\* C36: the dispatcher never calls ListTools or CallTool on a client handle
\* that is nil or closed: when a tools/list or tools/call frame is dispatched
\* the handle is set and no disconnect() or kickout() is running.
C36_NoDispatchOnClearedClient ==
    [][(inputs' = inputs + 1 /\ lastIn'.kind \in {MethodToolsList, MethodToolsCall})
          => /\ mcpcli # 0
             /\ lastTool' # "panic"
             /\ \A r \in Runs : ~TearingDown(r)]_vars

\* C37: every call of Write, WriteBinary or Close eventually returns: no
\* producer stays blocked on the outbound queue, also after the write pump
\* has exited with the session status still Normal.
C37_WriteCallsReturn ==
    \A c \in ApiCallers :
        (api.calls[c].pc \in {"writeMessage", "send"}) ~> (api.calls[c].pc = "done")

\* C38: RetryWithBackoff returns nil only if a call of fn returned nil: a run
\* in which fn never succeeded returns an error, whatever attempts,
\* initialDelay and maxDelay are.
C38_NilOnlyAfterSuccess ==
    (retry.pc = "done" /\ retry.result = "nil") => retry.calls = retry.k

====
